---- MODULE Spec2Model ----
(***************************************************************************)
(* The ArcGIS summarisation transformers and the layer summary chain.      *)
(*                                                                         *)
(*   ArcGISRowSummaryTransformer  document_transformers/arcgis_row_summarizer.py   *)
(*   LayerSummarizer              document_transformers/arcgis_layer_summarizer.py *)
(*   ArcGISLayerSummaryChain      chains/arcgis/layer/base.py              *)
(*                                                                         *)
(* Python strings are sequences of one-character strings, so that joining, *)
(* formatting and JSON parsing are computed character by character.        *)
(* Document objects live in a heap indexed by object identity; a sequence  *)
(* of documents is a sequence of identities (the same object may occur     *)
(* more than once in it).  A Python call either returns or raises; every   *)
(* operator that models a method yields a record carrying the heap it      *)
(* leaves behind, the chain invocations it made, and its value or the      *)
(* exception it raised.                                                    *)
(***************************************************************************)
EXTENDS Integers, Sequences, FiniteSets, TLC

\* ------------------------------------------------------------------ bounds
\* Number of document objects alive in the heap.
NumDocs == 2
\* Longest document sequence handed to a transform call.
MaxDocs == 2

ObjIds == 1..NumDocs

\* ----------------------------------------------------------------- strings
NL == "\n"
QUOTE == "\""

RECURSIVE str_join(_, _)
\* sep.join(parts)
str_join(sep, parts) ==
    IF Len(parts) = 0 THEN <<>>
    ELSE IF Len(parts) = 1 THEN parts[1]
    ELSE parts[1] \o sep \o str_join(sep, Tail(parts))

\* ------------------------------------------------------------ json.loads
\* Python values produced by json.loads: int, str and dict (insertion
\* ordered, a repeated key keeps its place and takes the last value).  The
\* decoder below covers whitespace, integers, strings without escapes and
\* objects nested to any depth; every string the model feeds it is decided
\* as Python's decoder decides it.
NoneValue == [kind |-> "None", num |-> 0, text |-> <<>>, items |-> <<>>]
IntValue(n) == [kind |-> "int", num |-> n, text |-> <<>>, items |-> <<>>]
StrValue(t) == [kind |-> "str", num |-> 0, text |-> t, items |-> <<>>]
DictValue(its) == [kind |-> "dict", num |-> 0, text |-> <<>>, items |-> its]

JSON_WS == {" ", NL, "\t", "\r"}
JSON_DIGITS == <<"0", "1", "2", "3", "4", "5", "6", "7", "8", "9">>
DigitSet == {JSON_DIGITS[k] : k \in 1..Len(JSON_DIGITS)}
DigitVal(c) == (CHOOSE k \in 1..Len(JSON_DIGITS) : JSON_DIGITS[k] = c) - 1

ScanFail == [ok |-> FALSE, val |-> NoneValue, end |-> 0]
ScanOk(v, e) == [ok |-> TRUE, val |-> v, end |-> e]

RECURSIVE skip_ws(_, _)
skip_ws(s, i) ==
    IF i <= Len(s) /\ s[i] \in JSON_WS THEN skip_ws(s, i + 1) ELSE i

RECURSIVE scan_digits(_, _, _)
scan_digits(s, i, acc) ==
    IF i <= Len(s) /\ s[i] \in DigitSet
    THEN scan_digits(s, i + 1, acc * 10 + DigitVal(s[i]))
    ELSE [num |-> acc, end |-> i]

\* -?(0|[1-9][0-9]*)
scan_int(s, i) ==
    LET neg == i <= Len(s) /\ s[i] = "-"
        j == IF neg THEN i + 1 ELSE i
    IN  IF j > Len(s) \/ s[j] \notin DigitSet THEN ScanFail
        ELSE IF s[j] = "0" THEN ScanOk(IntValue(0), j + 1)
        ELSE LET d == scan_digits(s, j, 0)
             IN  ScanOk(IntValue(IF neg THEN 0 - d.num ELSE d.num), d.end)

RECURSIVE string_end(_, _)
\* Index of the closing quote of a string whose body starts at i, 0 when the
\* body holds a control character or a backslash or never closes.
string_end(s, i) ==
    IF i > Len(s) THEN 0
    ELSE IF s[i] = QUOTE THEN i
    ELSE IF s[i] \in {NL, "\t", "\r", "\\"} THEN 0
    ELSE string_end(s, i + 1)

\* s[i] is the opening quote.
scan_string(s, i) ==
    LET e == string_end(s, i + 1)
    IN  IF e = 0 THEN ScanFail
        ELSE ScanOk(StrValue(SubSeq(s, i + 1, e - 1)), e + 1)

\* dict[key] = val
dict_set(items, key, val) ==
    IF \E k \in 1..Len(items) : items[k].key = key
    THEN [k \in 1..Len(items) |->
            IF items[k].key = key THEN [key |-> key, val |-> val] ELSE items[k]]
    ELSE Append(items, [key |-> key, val |-> val])

RECURSIVE scan_once(_, _)
RECURSIVE scan_pairs(_, _, _)

\* The pairs read so far are `items`; e is the first index after the last
\* value and the whitespace behind it.
pair_end(s, items, e) ==
    IF e > Len(s) THEN ScanFail
    ELSE IF s[e] = "}" THEN ScanOk(DictValue(items), e + 1)
    ELSE IF s[e] = "," THEN scan_pairs(s, skip_ws(s, e + 1), items)
    ELSE ScanFail

\* v is the scan of the value of key.
pair_value(s, items, key, v) ==
    IF ~v.ok THEN ScanFail
    ELSE pair_end(s, dict_set(items, key, v.val), skip_ws(s, v.end))

\* c is the first index after the key and the whitespace behind it.
pair_colon(s, items, key, c) ==
    IF c > Len(s) \/ s[c] # ":" THEN ScanFail
    ELSE pair_value(s, items, key, scan_once(s, skip_ws(s, c + 1)))

\* k is the scan of the key.
pair_key(s, items, k) ==
    IF ~k.ok THEN ScanFail
    ELSE pair_colon(s, items, k.val.text, skip_ws(s, k.end))

\* s[i] is expected to open the next key of an object.
scan_pairs(s, i, items) ==
    IF i > Len(s) \/ s[i] # QUOTE THEN ScanFail
    ELSE pair_key(s, items, scan_string(s, i))

\* s[i] is the opening brace.
scan_object(s, i) ==
    LET j == skip_ws(s, i + 1)
    IN  IF j <= Len(s) /\ s[j] = "}" THEN ScanOk(DictValue(<<>>), j + 1)
        ELSE scan_pairs(s, j, <<>>)

scan_once(s, i) ==
    IF i > Len(s) THEN ScanFail
    ELSE IF s[i] = QUOTE THEN scan_string(s, i)
    ELSE IF s[i] = "{" THEN scan_object(s, i)
    ELSE IF s[i] = "-" \/ s[i] \in DigitSet THEN scan_int(s, i)
    ELSE ScanFail

\* v is the scan of the document's value: only whitespace may follow it.
json_end(s, v) ==
    IF v.ok /\ skip_ws(s, v.end) = Len(s) + 1
    THEN [ok |-> TRUE, val |-> v.val]
    ELSE [ok |-> FALSE, val |-> NoneValue]

\* json.loads(s): [ok, val]; ok = FALSE stands for json.JSONDecodeError.
json_loads(s) == json_end(s, scan_once(s, skip_ws(s, 1)))

\* -------------------------------------------------------------- exceptions
NoExc == [type |-> "", arg |-> ""]
KeyError(k) == [type |-> "KeyError", arg |-> k]
JSONDecodeError == [type |-> "JSONDecodeError", arg |-> ""]
\* What the model backend raises when it fails (quota, network, ...).
ModelError == [type |-> "ModelError", arg |-> "quota"]

\* --------------------------------------------------------------- documents
\* langchain.schema.Document: page_content and a metadata dict (a function
\* from the keys present to their values).
Document(page_content, metadata) ==
    [page_content |-> page_content, metadata |-> metadata]

EmptyDict == [k \in {} |-> <<>>]

\* Mutant of dict_setitem: `doc.metadata = {key: value}`, the dict replaced
\* instead of the entry set.
dict_setitem_replaced(metadata, key, value) == [k \in {key} |-> value]

\* metadata[key] = value
dict_setitem(metadata, key, value) ==
    [k \in DOMAIN metadata \cup {key} |-> IF k = key THEN value ELSE metadata[k]]

LAYER_OPEN == <<"<", "l", "a", "y", "e", "r", "_", "s", "u", "m", "m", "a", "r", "y", ">">>
LAYER_CLOSE == <<"<", "/", "l", "a", "y", "e", "r", "_", "s", "u", "m", "m", "a", "r", "y", ">">>
ROW_OPEN == <<"<", "r", "o", "w", "_", "s", "u", "m", "m", "a", "r", "y", ">">>
ROW_CLOSE == <<"<", "/", "r", "o", "w", "_", "s", "u", "m", "m", "a", "r", "y", ">">>

\* Documents as the upstream loader hands them over.
\*   DocA  {"a":1}       row metadata, no summary
\*   DocB  {"b": "x"}    row metadata and a summary "A"
\*   DocC  {"a"          (truncated JSON) row metadata and a summary "<B>"
\*   DocD  {"a":1}       no layer_description, no summary
ContentA == <<"{", "\"", "a", "\"", ":", "1", "}">>
ContentB == <<"{", "\"", "b", "\"", ":", " ", "\"", "x", "\"", "}">>
ContentC == <<"{", "\"", "a", "\"">>
DocA ==
    Document(ContentA,
             [name |-> <<"n">>, item_description |-> <<"i">>,
              layer_description |-> <<"l">>])
DocB ==
    Document(ContentB,
             [name |-> <<"m">>, item_description |-> <<"j">>,
              layer_description |-> <<"l">>, summary |-> <<"A">>])
DocC ==
    Document(ContentC,
             [name |-> <<"n">>, item_description |-> <<"i">>,
              layer_description |-> <<"k">>, summary |-> <<"<", "B", ">">>])
DocD ==
    Document(ContentA, [name |-> <<"n">>, item_description |-> <<"i">>])
LoaderDocs == {DocA, DocB, DocC, DocD}

\* Sequences of document objects a caller may pass.
DocSeqs == UNION {[1..n -> ObjIds] : n \in 0..MaxDocs}

\* ------------------------------------------------------------ the model
\* Texts the language model may generate: a bullet point, and a text that
\* happens to be a JSON document.
ModelTexts == << <<"-", " ", "a">>, <<"7">> >>

\* The behaviour of the language model during one call: it raises, or it
\* answers the p-th prompt of a request with ModelTexts[(p + shift) mod n + 1].
LLMs ==
    {[raises |-> FALSE, shift |-> k, exc |-> NoExc] : k \in 0..(Len(ModelTexts) - 1)}
    \cup {[raises |-> TRUE, shift |-> 0, exc |-> ModelError]}

llm_text(llm, p) == ModelTexts[((p + llm.shift) % Len(ModelTexts)) + 1]

\* BaseChatModel.generate_prompt(prompts): an LLMResult whose generations
\* hold, per prompt, the list of candidate generations.
llm_generate_prompt(prompts, llm) ==
    IF llm.raises THEN [exc |-> llm.exc, generations |-> <<>>]
    ELSE [exc |-> NoExc,
          generations |-> [p \in 1..Len(prompts) |-> << [text |-> llm_text(llm, p)] >>]]

\* BaseChatModel.agenerate_prompt(prompts), awaited.
llm_agenerate_prompt(prompts, llm) ==
    IF llm.raises THEN [exc |-> llm.exc, generations |-> <<>>]
    ELSE [exc |-> NoExc,
          generations |-> [p \in 1..Len(prompts) |-> << [text |-> llm_text(llm, p)] >>]]

\* A record of one chain invocation made by a transformer.
ChainCall(chain, method, batch, text) ==
    [chain |-> chain, method |-> method, batch |-> batch, text |-> text]

\* ----------------------------------------------- ArcGISRowSummaryTransformer
\* Mutant of desc_from_doc: the layer description put first.
desc_from_doc_swapped(doc) ==
    IF "item_description" \notin DOMAIN doc.metadata
    THEN [exc |-> KeyError("item_description"), value |-> <<>>]
    ELSE IF "layer_description" \notin DOMAIN doc.metadata
    THEN [exc |-> KeyError("layer_description"), value |-> <<>>]
    ELSE [exc |-> NoExc,
          value |-> str_join(<<NL>>, <<doc.metadata["layer_description"],
                                       doc.metadata["item_description"]>>)]

\* desc_from_doc(doc): [exc, value].  The two subscripts are evaluated in
\* order; the first missing key raises KeyError.
desc_from_doc(doc) ==
    IF "item_description" \notin DOMAIN doc.metadata
    THEN [exc |-> KeyError("item_description"), value |-> <<>>]
    ELSE IF "layer_description" \notin DOMAIN doc.metadata
    THEN [exc |-> KeyError("layer_description"), value |-> <<>>]
    ELSE [exc |-> NoExc,
          value |-> str_join(<<NL>>, <<doc.metadata["item_description"],
                                       doc.metadata["layer_description"]>>)]

\* The dict literal built for one document: [exc, value].
doc_to_input(doc) ==
    IF "name" \notin DOMAIN doc.metadata
    THEN [exc |-> KeyError("name"), value |-> EmptyDict]
    ELSE LET d == desc_from_doc(doc)
         IN  IF d.exc # NoExc THEN [exc |-> d.exc, value |-> EmptyDict]
             ELSE [exc |-> NoExc,
                   value |-> [name |-> doc.metadata["name"],
                              desc |-> d.value,
                              json_str |-> doc.page_content]]

\* docs_to_inputs(docs): the list comprehension; the first document that
\* raises ends it.
docs_to_inputs(h, docs) ==
    LET one(i) == doc_to_input(h[docs[i]])
        bad == {i \in 1..Len(docs) : one(i).exc # NoExc}
    IN  IF bad # {}
        THEN [exc |-> one(CHOOSE i \in bad : \A j \in bad : i <= j).exc, value |-> <<>>]
        ELSE [exc |-> NoExc, value |-> [i \in 1..Len(docs) |-> one(i).value]]

\* ArcGISRowSummaryChain.apply(inputs): one generation request for the whole
\* list, one {"text": ...} per input, in input order.
RowChain_apply(inputs, llm) ==
    LET r == llm_generate_prompt(inputs, llm)
    IN  [exc |-> r.exc,
         value |-> IF r.exc # NoExc THEN <<>>
                   ELSE [i \in 1..Len(inputs) |-> [text |-> r.generations[i][1].text]]]

\* ArcGISRowSummaryChain.aapply(inputs), awaited.
RowChain_aapply(inputs, llm) ==
    LET r == llm_agenerate_prompt(inputs, llm)
    IN  [exc |-> r.exc,
         value |-> IF r.exc # NoExc THEN <<>>
                   ELSE [i \in 1..Len(inputs) |-> [text |-> r.generations[i][1].text]]]

\* summarize(docs): [exc, value, calls].
Row_summarize(h, docs, llm) ==
    LET inputs == docs_to_inputs(h, docs)
    IN  IF inputs.exc # NoExc
        THEN [exc |-> inputs.exc, value |-> <<>>, calls |-> <<>>]
        ELSE LET r == RowChain_apply(inputs.value, llm)
             IN  [exc |-> r.exc,
                  value |-> [i \in 1..Len(r.value) |-> r.value[i]["text"]],
                  calls |-> <<ChainCall("row", "apply", inputs.value, <<>>)>>]

\* asummarize(docs): [exc, value, calls].
Row_asummarize(h, docs, llm) ==
    LET inputs == docs_to_inputs(h, docs)
    IN  IF inputs.exc # NoExc
        THEN [exc |-> inputs.exc, value |-> <<>>, calls |-> <<>>]
        ELSE LET r == RowChain_aapply(inputs.value, llm)
             IN  [exc |-> r.exc,
                  value |-> [i \in 1..Len(r.value) |-> r.value[i]["text"]],
                  calls |-> <<ChainCall("row", "aapply", inputs.value, <<>>)>>]

\* Mutant of return_docs_assign: the two assignments swapped, so that the
\* content parsed is the summary just stored.
return_docs_assign_swapped(h, d, summary, parsed) ==
    IF ~json_loads(summary).ok THEN [exc |-> JSONDecodeError, heap |-> h]
    ELSE [exc |-> NoExc,
          heap |-> [h EXCEPT
                      ![d] = Document(summary,
                                      dict_setitem(h[d].metadata, "attributes",
                                                   json_loads(summary).val))]]

\* Mutant of return_docs_assign: a parse error is caught and the summary
\* stored all the same.
return_docs_assign_lenient(h, d, summary, parsed) ==
    IF ~parsed.ok
    THEN [exc |-> NoExc, heap |-> [h EXCEPT ![d].page_content = summary]]
    ELSE [exc |-> NoExc,
          heap |-> [h EXCEPT
                      ![d] = Document(summary,
                                      dict_setitem(h[d].metadata, "attributes",
                                                   parsed.val))]]

\* The two assignments of the loop body of return_docs on document object d,
\* parsed being json.loads(doc.page_content): [exc, heap].
return_docs_assign(h, d, summary, parsed) ==
    IF ~parsed.ok THEN [exc |-> JSONDecodeError, heap |-> h]
    ELSE [exc |-> NoExc,
          heap |-> [h EXCEPT
                      ![d] = Document(summary,
                                      dict_setitem(h[d].metadata, "attributes",
                                                   parsed.val))]]

\* One turn of the loop of return_docs on document object d: [exc, heap].
return_docs_step(h, d, summary) ==
    return_docs_assign(h, d, summary, json_loads(h[d].page_content))

RECURSIVE return_docs_from(_, _, _, _)

\* r is the i-th turn's result: an exception leaves the loop.
return_docs_next(docs, summaries, i, r) ==
    IF r.exc # NoExc THEN r
    ELSE return_docs_from(r.heap, docs, summaries, i + 1)

\* The loop of return_docs from the i-th pair of zip(docs, summaries) on.
return_docs_from(h, docs, summaries, i) ==
    IF i > Len(docs) \/ i > Len(summaries) THEN [exc |-> NoExc, heap |-> h]
    ELSE return_docs_next(docs, summaries, i,
                          return_docs_step(h, docs[i], summaries[i]))

\* return_docs(docs, summaries): [exc, heap, value].
return_docs(h, docs, summaries) ==
    [value |-> docs] @@ return_docs_from(h, docs, summaries, 1)

\* ----------------------------------------------------------- call results
NoDoc == Document(<<>>, EmptyDict)
NoOutcome == [kind |-> "none", docs |-> <<>>, doc |-> NoDoc, exc |-> NoExc]
Raise(exc) == [kind |-> "raise", docs |-> <<>>, doc |-> NoDoc, exc |-> exc]
ReturnDocs(docs) == [kind |-> "return", docs |-> docs, doc |-> NoDoc, exc |-> NoExc]
ReturnDoc(doc) == [kind |-> "return", docs |-> <<>>, doc |-> doc, exc |-> NoExc]

\* `return self.return_docs(documents, summaries)`, r being what return_docs
\* gave: its value is returned, its exception propagates.
Row_return(calls, r) ==
    [heap |-> r.heap, calls |-> calls,
     outcome |-> IF r.exc # NoExc THEN Raise(r.exc) ELSE ReturnDocs(r.value)]

\* Mutant of transform_documents: an exception of summarize is caught and the
\* documents are returned as they are.
Row_transform_documents_swallowing(h, documents, llm) ==
    LET s == Row_summarize(h, documents, llm)
    IN  IF s.exc # NoExc
        THEN [heap |-> h, calls |-> s.calls, outcome |-> ReturnDocs(documents)]
        ELSE Row_return(s.calls, return_docs(h, documents, s.value))

\* ArcGISRowSummaryTransformer.transform_documents(documents):
\* [heap, calls, outcome].
Row_transform_documents(h, documents, llm) ==
    LET s == Row_summarize(h, documents, llm)
    IN  IF s.exc # NoExc
        THEN [heap |-> h, calls |-> s.calls, outcome |-> Raise(s.exc)]
        ELSE Row_return(s.calls, return_docs(h, documents, s.value))

\* Mutant of atransform_documents: the documents returned without the
\* summaries being stored.
Row_atransform_documents_unstored(h, documents, llm) ==
    LET s == Row_asummarize(h, documents, llm)
    IN  IF s.exc # NoExc
        THEN [heap |-> h, calls |-> s.calls, outcome |-> Raise(s.exc)]
        ELSE [heap |-> h, calls |-> s.calls, outcome |-> ReturnDocs(documents)]

\* ArcGISRowSummaryTransformer.atransform_documents(documents), awaited.
Row_atransform_documents(h, documents, llm) ==
    LET s == Row_asummarize(h, documents, llm)
    IN  IF s.exc # NoExc
        THEN [heap |-> h, calls |-> s.calls, outcome |-> Raise(s.exc)]
        ELSE Row_return(s.calls, return_docs(h, documents, s.value))

\* --------------------------------------------------- ArcGISLayerSummaryChain
output_key == "text"

\* The one input variable of the layer prompt; its name is fixed by the
\* prompt template and nothing below depends on it.
layer_input_key == "input"

\* ChatPromptTemplate.format_prompt(**inputs): the rendered prompt value.
format_prompt(inputs) == [rendered |-> inputs]

\* _call(inputs): [exc, value].
LayerChain_call(inputs, llm) ==
    LET prompt_value == format_prompt(inputs)
        response == llm_generate_prompt(<<prompt_value>>, llm)
    IN  IF response.exc # NoExc THEN [exc |-> response.exc, value |-> EmptyDict]
        ELSE [exc |-> NoExc,
              value |-> [k \in {output_key} |-> response.generations[1][1].text]]

\* _acall(inputs), awaited: [exc, value].
LayerChain_acall(inputs, llm) ==
    LET prompt_value == format_prompt(inputs)
        response == llm_agenerate_prompt(<<prompt_value>>, llm)
    IN  IF response.exc # NoExc THEN [exc |-> response.exc, value |-> EmptyDict]
        ELSE [exc |-> NoExc,
              value |-> [k \in {output_key} |-> response.generations[1][1].text]]

\* Chain.run(text): the chain invoked on its single input, giving the
\* chain's output mapping.
LayerChain_run(text, llm) ==
    LayerChain_call([k \in {layer_input_key} |-> text], llm)

\* Chain.arun(text), awaited.
LayerChain_arun(text, llm) ==
    LayerChain_acall([k \in {layer_input_key} |-> text], llm)

\* ------------------------------------------------------------ LayerSummarizer
\* Mutant of summaries_str: the groups joined without the newline.
summaries_str_unseparated(h, docs) ==
    LET bad == {i \in 1..Len(docs) : "summary" \notin DOMAIN h[docs[i]].metadata}
    IN  IF bad # {} THEN [exc |-> KeyError("summary"), value |-> <<>>]
        ELSE LET summaries == [i \in 1..Len(docs) |-> h[docs[i]].metadata["summary"]]
                 sub_sums ==
                     str_join(<<>>,
                              [i \in 1..Len(summaries) |->
                                 ROW_OPEN \o <<NL>> \o summaries[i] \o <<NL>> \o ROW_CLOSE])
             IN  [exc |-> NoExc,
                  value |-> LAYER_OPEN \o <<NL>> \o sub_sums \o <<NL>> \o LAYER_CLOSE]

\* summaries_str(docs): [exc, value].
summaries_str(h, docs) ==
    LET bad == {i \in 1..Len(docs) : "summary" \notin DOMAIN h[docs[i]].metadata}
    IN  IF bad # {} THEN [exc |-> KeyError("summary"), value |-> <<>>]
        ELSE LET summaries == [i \in 1..Len(docs) |-> h[docs[i]].metadata["summary"]]
                 sub_sums ==
                     str_join(<<NL>>,
                              [i \in 1..Len(summaries) |->
                                 ROW_OPEN \o <<NL>> \o summaries[i] \o <<NL>> \o ROW_CLOSE])
             IN  [exc |-> NoExc,
                  value |-> LAYER_OPEN \o <<NL>> \o sub_sums \o <<NL>> \o LAYER_CLOSE]

\* summarize(docs): [exc, value, calls].
Layer_summarize(h, docs, llm) ==
    LET input == summaries_str(h, docs)
    IN  IF input.exc # NoExc
        THEN [exc |-> input.exc, value |-> <<>>, calls |-> <<>>]
        ELSE LET output == LayerChain_run(input.value, llm)
             IN  [exc |-> output.exc,
                  value |-> IF output.exc # NoExc THEN <<>> ELSE output.value["text"],
                  calls |-> <<ChainCall("layer", "run", <<>>, input.value)>>]

\* asummarize(docs): [exc, value, calls].
Layer_asummarize(h, docs, llm) ==
    LET input == summaries_str(h, docs)
    IN  IF input.exc # NoExc
        THEN [exc |-> input.exc, value |-> <<>>, calls |-> <<>>]
        ELSE LET output == LayerChain_arun(input.value, llm)
             IN  [exc |-> output.exc,
                  value |-> IF output.exc # NoExc THEN <<>> ELSE output.value["text"],
                  calls |-> <<ChainCall("layer", "arun", <<>>, input.value)>>]

\* Mutant of transform_documents: the new document built without metadata.
Layer_transform_documents_bare(h, documents, llm) ==
    LET summary == Layer_summarize(h, documents, llm)
    IN  [heap |-> h, calls |-> summary.calls,
         outcome |-> IF summary.exc # NoExc THEN Raise(summary.exc)
                     ELSE ReturnDoc(Document(summary.value, EmptyDict))]

\* LayerSummarizer.transform_documents(documents): [heap, calls, outcome].
Layer_transform_documents(h, documents, llm) ==
    LET summary == Layer_summarize(h, documents, llm)
    IN  [heap |-> h, calls |-> summary.calls,
         outcome |-> IF summary.exc # NoExc THEN Raise(summary.exc)
                     ELSE ReturnDoc(Document(summary.value,
                                             [k \in {"input_docs"} |-> documents]))]

\* LayerSummarizer.atransform_documents(documents), awaited.
Layer_atransform_documents(h, documents, llm) ==
    LET summary == Layer_asummarize(h, documents, llm)
    IN  [heap |-> h, calls |-> summary.calls,
         outcome |-> IF summary.exc # NoExc THEN Raise(summary.exc)
                     ELSE ReturnDoc(Document(summary.value,
                                             [k \in {"input_docs"} |-> documents]))]

\* ------------------------------------------------------------ state machine
\* heap        the document objects
\* op          "idle", or the entry point whose call has just ended
\* args        the document sequence passed to that call
\* mock        the language model's behaviour during that call
\* heap0       the document objects as they were when the call began
\* chainCalls  the chain invocations the call made, in order
\* outcome     what the call returned or raised
VARIABLES heap, op, args, mock, heap0, chainCalls, outcome
vars == <<heap, op, args, mock, heap0, chainCalls, outcome>>

IdleLLM == [raises |-> FALSE, shift |-> 0, exc |-> NoExc]

Init ==
    /\ heap \in [ObjIds -> LoaderDocs]
    /\ op = "idle"
    /\ args = <<>>
    /\ mock = IdleLLM
    /\ heap0 = heap
    /\ chainCalls = <<>>
    /\ outcome = NoOutcome

\* A call of entry point `name` on `documents` under model behaviour `llm`
\* ran to its end with result r.
Called(name, documents, llm, r) ==
    /\ heap' = r.heap
    /\ op' = name
    /\ args' = documents
    /\ mock' = llm
    /\ heap0' = heap
    /\ chainCalls' = r.calls
    /\ outcome' = r.outcome

RowTransformDocuments ==
    /\ op = "idle"
    /\ \E documents \in DocSeqs, llm \in LLMs :
          Called("row.transform_documents", documents, llm,
                 Row_transform_documents(heap, documents, llm))

RowATransformDocuments ==
    /\ op = "idle"
    /\ \E documents \in DocSeqs, llm \in LLMs :
          Called("row.atransform_documents", documents, llm,
                 Row_atransform_documents(heap, documents, llm))

LayerTransformDocuments ==
    /\ op = "idle"
    /\ \E documents \in DocSeqs, llm \in LLMs :
          Called("layer.transform_documents", documents, llm,
                 Layer_transform_documents(heap, documents, llm))

LayerATransformDocuments ==
    /\ op = "idle"
    /\ \E documents \in DocSeqs, llm \in LLMs :
          Called("layer.atransform_documents", documents, llm,
                 Layer_atransform_documents(heap, documents, llm))

\* The caller takes the result (or the exception) and is free to call again;
\* the document objects stay as the call left them.
Return ==
    /\ op # "idle"
    /\ heap' = heap
    /\ op' = "idle"
    /\ args' = <<>>
    /\ mock' = IdleLLM
    /\ heap0' = heap
    /\ chainCalls' = <<>>
    /\ outcome' = NoOutcome

Next ==
    \/ RowTransformDocuments
    \/ RowATransformDocuments
    \/ LayerTransformDocuments
    \/ LayerATransformDocuments
    \/ Return

Spec == Init /\ [][Next]_vars

\* ------------------------------------------------------------------ claims
RowSync == op = "row.transform_documents"
RowAsync == op = "row.atransform_documents"
LayerSync == op = "layer.transform_documents"
LayerAsync == op = "layer.atransform_documents"

ROW_KEYS == {"name", "item_description", "layer_description"}

\* Every document passed carried the three metadata keys the row transformer
\* reads.
RowKeysPresent == \A i \in 1..Len(args) : ROW_KEYS \subseteq DOMAIN heap0[args[i]].metadata

\* Every document passed held valid JSON when the call began.
RowContentsValid == \A i \in 1..Len(args) : json_loads(heap0[args[i]].page_content).ok

\* Every document passed carried a row summary in its metadata.
SummariesPresent == \A i \in 1..Len(args) : "summary" \in DOMAIN heap0[args[i]].metadata

\* No document object occurs twice in the sequence passed.
Distinct == \A i, j \in 1..Len(args) : args[i] = args[j] => i = j

\* The i-th document returned holds the i-th generated text and the parse of
\* the content the i-th document passed had when the call began.
Summarized(i) ==
    LET doc == heap[outcome.docs[i]]
    IN  /\ doc.page_content = llm_text(mock, i)
        /\ "attributes" \in DOMAIN doc.metadata
        /\ doc.metadata["attributes"] = json_loads(heap0[args[i]].page_content).val

\* C1 as stated: for every sequence of documents with the three metadata keys
\* and valid JSON content, transform_documents returns a sequence of the same
\* length whose i-th document holds the i-th generated text and, under
\* "attributes", the parse of its original content.
C1_AnySequence ==
    (RowSync /\ RowKeysPresent /\ RowContentsValid /\ ~mock.raises)
        => /\ outcome.kind = "return"
           /\ Len(outcome.docs) = Len(args)
           /\ \A i \in 1..Len(args) : Summarized(i)

\* C1 as amended: the same, for sequences in which no document object occurs
\* twice.
C1_DistinctDocuments ==
    (RowSync /\ RowKeysPresent /\ RowContentsValid /\ ~mock.raises /\ Distinct)
        => /\ outcome.kind = "return"
           /\ Len(outcome.docs) = Len(args)
           /\ \A i \in 1..Len(args) : Summarized(i)

C1_Witness ==
    /\ RowSync /\ RowKeysPresent /\ RowContentsValid /\ Distinct
    /\ outcome.kind = "return"
    /\ Len(args) >= 2
    /\ heap[args[1]].page_content # heap[args[2]].page_content
    /\ heap0[args[1]].page_content # heap0[args[2]].page_content

\* C2: when some document of the batch holds invalid JSON, the row transform
\* fails with the parse error and no document of the batch has been changed.
C2_NoPartialMutation ==
    (RowSync /\ RowKeysPresent /\ ~RowContentsValid /\ ~mock.raises)
        => /\ outcome = Raise(JSONDecodeError)
           /\ heap = heap0

\* C3: whatever the length of the input sequence, when every document carries
\* a summary and the chain succeeds, LayerSummarizer.transform_documents
\* returns one new document whose content is the text the chain returned and
\* whose metadata is exactly {"input_docs": the sequence passed}.
C3_LayerResult ==
    (LayerSync /\ SummariesPresent /\ ~mock.raises)
        => /\ outcome.kind = "return"
           /\ outcome.docs = <<>>
           /\ outcome.doc.page_content = llm_text(mock, 1)
           /\ DOMAIN outcome.doc.metadata = {"input_docs"}
           /\ outcome.doc.metadata["input_docs"] = args

C3_Witness ==
    /\ LayerSync /\ SummariesPresent
    /\ outcome.kind = "return"
    /\ Len(args) >= 2
    /\ args[1] # args[2]

\* The row summary read from the i-th document passed.
SummaryOf(i) == heap0[args[i]].metadata["summary"]

\* Length of the i-th <row_summary> group.
GroupLen(i) == Len(ROW_OPEN) + 1 + Len(SummaryOf(i)) + 1 + Len(ROW_CLOSE)

RECURSIVE GroupStart(_)
\* Number of characters in front of the i-th <row_summary> group.
GroupStart(i) ==
    IF i = 1 THEN Len(LAYER_OPEN) + 1
    ELSE GroupStart(i - 1) + GroupLen(i - 1) + 1

\* Number of characters up to the end of the last group.
GroupsEnd ==
    IF Len(args) = 0 THEN Len(LAYER_OPEN) + 1
    ELSE GroupStart(Len(args)) + GroupLen(Len(args))

\* The wire format, position by position.
WireFormat(t) ==
    /\ Len(t) = GroupsEnd + 1 + Len(LAYER_CLOSE)
    /\ SubSeq(t, 1, Len(LAYER_OPEN) + 1) = LAYER_OPEN \o <<NL>>
    /\ \A i \in 1..Len(args) :
          /\ SubSeq(t, GroupStart(i) + 1, GroupStart(i) + GroupLen(i))
                = ROW_OPEN \o <<NL>> \o SummaryOf(i) \o <<NL>> \o ROW_CLOSE
          /\ i < Len(args) => t[GroupStart(i) + GroupLen(i) + 1] = NL
    /\ SubSeq(t, GroupsEnd + 1, Len(t)) = <<NL>> \o LAYER_CLOSE

\* C4: a call of LayerSummarizer.transform_documents on documents that carry
\* summaries invokes the layer chain exactly once, with "<layer_summary>\n",
\* one "<row_summary>\n{summary}\n</row_summary>" group per document in input
\* order, the groups separated by one "\n", then "\n</layer_summary>"; the
\* summaries are copied as they are.
C4_ChainInput ==
    (LayerSync /\ SummariesPresent)
        => /\ Len(chainCalls) = 1
           /\ chainCalls[1].chain = "layer"
           /\ chainCalls[1].method = "run"
           /\ WireFormat(chainCalls[1].text)

\* "<layer_summary>\n<row_summary>\nA\n</row_summary>\n<row_summary>\n<B>\n
\* </row_summary>\n</layer_summary>"
C4_Example ==
    <<
        "<", "l", "a", "y", "e", "r", "_", "s", "u", "m", "m", "a", "r",
        "y", ">", "\n", "<", "r", "o", "w", "_", "s", "u", "m", "m", "a",
        "r", "y", ">", "\n", "A", "\n", "<", "/", "r", "o", "w", "_", "s",
        "u", "m", "m", "a", "r", "y", ">", "\n", "<", "r", "o", "w", "_",
        "s", "u", "m", "m", "a", "r", "y", ">", "\n", "<", "B", ">", "\n",
        "<", "/", "r", "o", "w", "_", "s", "u", "m", "m", "a", "r", "y",
        ">", "\n", "<", "/", "l", "a", "y", "e", "r", "_", "s", "u", "m",
        "m", "a", "r", "y", ">"
    >>

C4_Witness ==
    /\ LayerSync
    /\ Len(chainCalls) = 1
    /\ chainCalls[1].text = C4_Example

\* C5: when the model invocation fails during a transform call, the caller
\* gets the model's error as raised, no result is returned, the chain has been
\* invoked once only, and every document is as it was before the call.
C5_ModelFailure ==
    (/\ mock.raises
     /\ \/ (RowSync \/ RowAsync) /\ RowKeysPresent
        \/ (LayerSync \/ LayerAsync) /\ SummariesPresent)
        => /\ outcome = Raise(mock.exc)
           /\ heap = heap0
           /\ Len(chainCalls) = 1

C5_Witness ==
    /\ RowSync /\ RowKeysPresent /\ RowContentsValid
    /\ mock.raises
    /\ Len(args) >= 2
    /\ outcome.kind = "raise"

\* C6: on the same documents and the same model behaviour the blocking and
\* the suspending entry points end alike: transform_documents and
\* atransform_documents of either transformer leave the same documents and
\* return or raise the same, and _call and _acall give the same output.
C6_SyncAsyncAgree ==
    /\ (RowSync \/ RowAsync)
          => \A r \in {Row_transform_documents(heap0, args, mock),
                       Row_atransform_documents(heap0, args, mock)} :
                r.heap = heap /\ r.outcome = outcome
    /\ (LayerSync \/ LayerAsync)
          => /\ \A r \in {Layer_transform_documents(heap0, args, mock),
                          Layer_atransform_documents(heap0, args, mock)} :
                   r.heap = heap /\ r.outcome = outcome
             /\ \A i \in 1..Len(chainCalls) :
                   LayerChain_call([k \in {layer_input_key} |-> chainCalls[i].text], mock)
                      = LayerChain_acall([k \in {layer_input_key} |-> chainCalls[i].text], mock)

C6_Witness ==
    /\ RowAsync
    /\ outcome.kind = "return"
    /\ Len(args) >= 2
    /\ heap # heap0

C6_WitnessLayer ==
    /\ LayerAsync
    /\ outcome.kind = "return"
    /\ Len(args) >= 1

\* A document the row transformer has already transformed: only return_docs
\* writes metadata["attributes"], and the loader's documents have none.
Transformed(d) == "attributes" \in DOMAIN heap0[d].metadata

\* C7 as stated: a second run on a batch holding an already transformed
\* document fails with the JSON parse error and leaves that document's
\* attributes alone, whatever text the first run generated.
C7_AnySummary ==
    (/\ RowSync /\ RowKeysPresent /\ ~mock.raises
     /\ \E i \in 1..Len(args) : Transformed(args[i]))
        => /\ outcome = Raise(JSONDecodeError)
           /\ \A i \in 1..Len(args) :
                 Transformed(args[i])
                    => heap[args[i]].metadata["attributes"]
                          = heap0[args[i]].metadata["attributes"]

\* An already transformed document whose content (the generated summary) is
\* not valid JSON.
SummaryNotJson(d) == Transformed(d) /\ ~json_loads(heap0[d].page_content).ok

\* C7 as amended: a second run on a batch holding an already transformed
\* document whose summary is not valid JSON never succeeds and leaves that
\* document's attributes alone; it fails with the JSON parse error whenever
\* the batch reaches return_docs (metadata keys present, model answering).
C7_NonJsonSummary ==
    (RowSync /\ \E i \in 1..Len(args) : SummaryNotJson(args[i]))
        => /\ outcome.kind = "raise"
           /\ (RowKeysPresent /\ ~mock.raises) => outcome.exc = JSONDecodeError
           /\ \A i \in 1..Len(args) :
                 SummaryNotJson(args[i])
                    => heap[args[i]].metadata["attributes"]
                          = heap0[args[i]].metadata["attributes"]

C7_Witness ==
    /\ RowSync /\ ~mock.raises
    /\ Len(args) >= 1
    /\ SummaryNotJson(args[1])
    /\ outcome = Raise(JSONDecodeError)

\* The mapping built for the i-th document, under the key names given.
InputIs(input, i, keys, desc_key) ==
    /\ DOMAIN input = keys
    /\ input["name"] = heap0[args[i]].metadata["name"]
    /\ input[desc_key] = heap0[args[i]].metadata["item_description"] \o <<NL>>
                            \o heap0[args[i]].metadata["layer_description"]
    /\ input["json_str"] = heap0[args[i]].page_content

C9_Frame ==
    /\ (RowSync /\ outcome.kind = "return") => outcome.docs = args
    /\ RowSync =>
          \A d \in ObjIds :
             /\ DOMAIN heap0[d].metadata \subseteq DOMAIN heap[d].metadata
             /\ DOMAIN heap[d].metadata \subseteq DOMAIN heap0[d].metadata \cup {"attributes"}
             /\ \A k \in DOMAIN heap0[d].metadata \ {"attributes"} :
                   heap[d].metadata[k] = heap0[d].metadata[k]
             /\ (\A i \in 1..Len(args) : args[i] # d) => heap[d] = heap0[d]
    /\ LayerSync => heap = heap0

C9_Witness ==
    /\ RowSync
    /\ outcome.kind = "return"
    /\ Len(args) >= 1
    /\ heap # heap0
    /\ "summary" \in DOMAIN heap0[args[1]].metadata

C9_WitnessLayer ==
    /\ LayerSync
    /\ outcome.kind = "return"
    /\ Len(args) >= 1

\* C10: every document a successful row transform returns carries under
\* metadata["summary"], where the layer summarizer reads it, the text the row
\* transformer generated for it.
C10_Compose ==
    (RowSync /\ outcome.kind = "return")
        => /\ summaries_str(heap, outcome.docs).exc = NoExc
           /\ \A i \in 1..Len(outcome.docs) :
                 heap[outcome.docs[i]].metadata["summary"]
                    = heap[outcome.docs[i]].page_content

====
